---- MODULE Spec2Model ----
\* A model of ttab/joboptions: the byte-level Scanner of parser/parser.go and
\* the recursive-descent Parse of joboptions.go that drives it.
\*
\* Bytes are one-character strings, a buffer is a sequence of bytes, and the
\* scanner's offset is 0-based as in the source (buffer[offset] is
\* buf[offset + 1] here).  The recursion of parseDictionary / parseArray /
\* parseValue is an explicit stack of frames, one frame per active call of
\* parseDictionary or parseArray; one action is one iteration of the loop of
\* the function on top of the stack, with everything it returns through.
EXTENDS Integers, Sequences, FiniteSets, TLC

VARIABLES
    buffer,   \* Scanner.buffer
    offset,   \* Scanner.offset
    line,     \* Scanner.line
    token,    \* Scanner.token
    err,      \* Scanner.err
    client,   \* who drives the scanner: "parse" (Parse) or "scan" (a bare Scan loop)
    pc,       \* where the client stands
    stack,    \* the active parseDictionary / parseArray calls, outermost first
    cur,      \* Parse's local d: the top-level dictionary just parsed
    params,   \* Parse's local params
    ret,      \* what Parse returned: [nil, params, err]
    trace,    \* history: the tokens Scan has returned, with where the client
              \* stood and where the cursor stood after each
    eofAt,    \* history: where the client stood when Scan first returned false
    errLog,   \* history: every error ever assigned to Scanner.err, in order
    pairs,    \* history: the (name, dictionary) pairs stored by Parse, in order
    polls     \* history: how many times Scan was called after it returned false

vars == <<buffer, offset, line, token, err, client, pc, stack, cur, params, ret,
          trace, eofAt, errLog, pairs, polls>>

-----------------------------------------------------------------------------
\* Bounds of the model.

\* The longest input, in chunks of the input alphabet.
MaxChunks == 5

\* How many more times a bare client polls Scan after it has returned false.
MaxPolls == 2

-----------------------------------------------------------------------------
\* Bytes.

LF == "\n"
CR == "\r"
TAB == "\t"
SP == " "

Lower == {"a", "b", "c", "d", "e", "f", "g", "h", "i", "j", "k", "l", "m",
          "n", "o", "p", "q", "r", "s", "t", "u", "v", "w", "x", "y", "z"}

Digit == {"0", "1", "2", "3", "4", "5", "6", "7", "8", "9"}

ws == {LF, CR, SP, TAB}

tStart == <<"<", "<">>
tEnd == <<">", ">">>
tTrue == <<"t", "r", "u", "e">>
tFalse == <<"f", "a", "l", "s", "e">>

\* buf[from:to] of Go, 0-based and half-open.
Slice(buf, from, to) == SubSeq(buf, from + 1, to)

\* bytes.HasPrefix
HasPrefix(s, prefix) ==
    /\ Len(s) >= Len(prefix)
    /\ SubSeq(s, 1, Len(prefix)) = prefix

-----------------------------------------------------------------------------
\* Tokens.

TypeUnknown == "unknown"
TypeStartDictionary == "start_dictionary"
TypeEndDictionary == "end_dictionary"
TypeStartArray == "start_array"
TypeEndArray == "end_array"
TypeLiteral == "literal"
TypeString == "string"
TypeBoolean == "boolean"
TypeIdentifier == "identifier"
TypeNumber == "number"
TypeBinary == "binary"

Token(t, v) == [Type |-> t, Value |-> v]

\* The zero Token a new Scanner holds.
ZeroToken == Token(TypeUnknown, <<>>)

-----------------------------------------------------------------------------
\* Errors.  An error is a record of one shape: its message, the values the
\* message is formatted with, and the errors it wraps (one for %w, two for
\* errors.Join).  Nil is the nil error.

MkErr(msg, ln, idx, want, got, text, inner) ==
    [msg |-> msg, line |-> ln, idx |-> idx, want |-> want, got |-> got,
     text |-> text, inner |-> inner]

Nil == MkErr("nil", 0, -1, "", "", <<>>, <<>>)

\* fmt.Errorf / errors.New with no wrapped error
Leaf(msg, text) == MkErr(msg, 0, -1, "", "", text, <<>>)

\* fmt.Errorf(msg + ": %w", e)
Wrap(msg, e) == MkErr(msg, 0, -1, "", "", <<>>, <<e>>)

\* errors.Join(a, b), both non-nil
Join(a, b) == MkErr("join", 0, -1, "", "", <<>>, <<a, b>>)

ErrUnexpectedEOF == Leaf("unexpected EOF", <<>>)

\* What errors.Is / errors.As walk: the error and everything it wraps.
RECURSIVE Chain(_)
Chain(e) ==
    {e} \cup UNION {Chain(e.inner[i]) : i \in DOMAIN e.inner}

-----------------------------------------------------------------------------
\* The Scanner.  A scanner value is the struct; every method below takes it
\* and gives back the struct as the method leaves it, with the method's
\* result.  A *Token result is tok: <<>> for nil, <<t>> for &t.

NewScanner(data) ==
    [buffer |-> data, offset |-> 0, line |-> 1, token |-> ZeroToken,
     err |-> Nil]

\* s.buffer[i]
At(s, i) == s.buffer[i + 1]

NoToken(s) == [s |-> s, tok |-> <<>>]

SomeToken(s, t, v) == [s |-> s, tok |-> <<Token(t, v)>>]

RECURSIVE skipWSLoop(_)
skipWSLoop(s) ==
    IF At(s, s.offset) \notin ws
    THEN [s |-> s, ok |-> TRUE]
    ELSE LET s1 == [s EXCEPT !.line = IF At(s, s.offset) = LF THEN @ + 1 ELSE @,
                             !.offset = @ + 1]
         IN  IF s1.offset = Len(s1.buffer)
             THEN [s |-> s1, ok |-> FALSE]
             ELSE skipWSLoop(s1)

skipWS(s) ==
    IF s.offset = Len(s.buffer)
    THEN [s |-> s, ok |-> FALSE]
    ELSE skipWSLoop(s)

RECURSIVE captureUntilLoop(_, _, _, _)
captureUntilLoop(s, t, c, start) ==
    LET s1 == [s EXCEPT !.offset = @ + 1]
    IN  IF s1.offset = Len(s1.buffer)
        THEN NoToken([s1 EXCEPT
                 !.err = Wrap("expected end of string", ErrUnexpectedEOF)])
        ELSE IF At(s1, s1.offset) = c
        THEN LET s2 == [s1 EXCEPT !.offset = @ + 1]
             IN  SomeToken(s2, t, Slice(s2.buffer, start, s2.offset - 1))
        ELSE captureUntilLoop(s1, t, c, start)

\* captureUntil that takes the end of input for the closing byte.
captureUntilLenient(s, t, c) ==
    LET r == captureUntilLoop(s, t, c, s.offset + 1)
    IN  IF r.tok # <<>> THEN r
        ELSE SomeToken([r.s EXCEPT !.err = Nil], t,
                       Slice(s.buffer, s.offset + 1, Len(s.buffer)))

captureUntil(s, t, c) == captureUntilLoop(s, t, c, s.offset + 1)

\* dotPos is -1 until a '.' has been seen.
RECURSIVE captureNumberLoop(_, _, _)
captureNumberLoop(s, start, dotPos) ==
    LET s1 == [s EXCEPT !.offset = @ + 1]
        c == At(s1, s1.offset)
        isNum == c = "." \/ c \in Digit
    IN  IF s1.offset = Len(s1.buffer)
        THEN SomeToken(s1, TypeNumber, Slice(s1.buffer, start, s1.offset))
        ELSE IF c = "." /\ dotPos # -1
        THEN NoToken([s1 EXCEPT !.err = Leaf("unexpected character '.'", <<>>)])
        ELSE IF ~isNum
        THEN SomeToken(s1, TypeNumber, Slice(s1.buffer, start, s1.offset))
        ELSE captureNumberLoop(s1, start, IF c = "." THEN s1.offset ELSE dotPos)

captureNumber(s) == captureNumberLoop(s, s.offset, -1)

RECURSIVE captureUntilWsLoop(_, _, _)
captureUntilWsLoop(s, t, start) ==
    IF s.offset < Len(s.buffer) /\ At(s, s.offset) \notin ws
    THEN captureUntilWsLoop([s EXCEPT !.offset = @ + 1], t, start)
    ELSE SomeToken(s, t, Slice(s.buffer, start, s.offset))

captureUntilWs(s, t) == captureUntilWsLoop(s, t, s.offset)

\* advanceAndCapture that leaves the cursor where it is.
advanceAndCaptureStuck(s, t, l) ==
    SomeToken(s, t, Slice(s.buffer, s.offset, s.offset + l))

advanceAndCapture(s, t, l) ==
    SomeToken([s EXCEPT !.offset = @ + l], t,
              Slice(s.buffer, s.offset, s.offset + l))

\* The two switches of scan, on the bytes from the cursor on.
dispatch(s) ==
    LET next == Slice(s.buffer, s.offset, Len(s.buffer))
        c == next[1]
    IN  CASE c = "/" -> captureUntilWs(s, TypeLiteral)
          [] c = "[" -> advanceAndCapture(s, TypeStartArray, 1)
          [] c = "]" -> advanceAndCapture(s, TypeEndArray, 1)
          [] c = "(" -> captureUntil(s, TypeString, ")")
          [] c = "-" -> captureUntilWs(s, TypeNumber)
          [] OTHER ->
             IF HasPrefix(next, tStart)
             THEN advanceAndCapture(s, TypeStartDictionary, Len(tStart))
             ELSE IF HasPrefix(next, tEnd)
             THEN advanceAndCapture(s, TypeEndDictionary, Len(tEnd))
             ELSE IF HasPrefix(next, tTrue)
             THEN advanceAndCapture(s, TypeBoolean, Len(tTrue))
             ELSE IF HasPrefix(next, tFalse)
             THEN advanceAndCapture(s, TypeBoolean, Len(tFalse))
             ELSE IF c \in Lower
             THEN captureUntilWs(s, TypeIdentifier)
             ELSE IF c \in Digit
             THEN captureNumber(s)
             ELSE IF c = "<"
             THEN captureUntil(s, TypeBinary, ">")
             ELSE NoToken([s EXCEPT !.err = Leaf("unexpected token", <<c>>)])

scan(s) ==
    LET r == skipWS(s)
    IN  IF ~r.ok THEN NoToken(r.s) ELSE dispatch(r.s)

\* Scan without its test of s.err.
ScanNoLatch(s) ==
    LET r == scan(s)
    IN  [s |-> IF r.tok # <<>> THEN [r.s EXCEPT !.token = r.tok[1]] ELSE r.s,
         ok |-> r.tok # <<>>]

Scan(s) ==
    IF s.err # Nil
    THEN [s |-> s, ok |-> FALSE]
    ELSE LET r == scan(s)
         IN  [s |-> IF r.tok # <<>> THEN [r.s EXCEPT !.token = r.tok[1]]
                    ELSE r.s,
              ok |-> r.tok # <<>>]

\* fmt.Errorf("on line %d: %w", s.line, e), joined with s.err when there is one
WrapError(s, e) ==
    LET w == MkErr("on line", s.line, -1, "", "", <<>>, <<e>>)
    IN  IF s.err # Nil THEN Join(w, s.err) ELSE w

WrapErrorf(s, msg) == WrapError(s, Leaf(msg, <<>>))

\* WrapErrorf(msg + ": %w", e)
WrapErrorfW(s, msg, e) == WrapError(s, Wrap(msg, e))

UnexpectedTokenError(s, want, got) ==
    WrapError(s, MkErr("expected a token", 0, -1, want, got.Type, got.Value,
                       <<>>))

\* Err that reports no error.
ErrDropped(s) == Nil

Err(s) == IF s.err = Nil THEN Nil ELSE WrapError(s, s.err)

-----------------------------------------------------------------------------
\* Values.  A Value is the struct, every field present, unset fields zero.

ValueString == "string"
ValueArray == "array"
ValueBoolean == "boolean"
ValueBinary == "binary"
ValueDictionary == "dictionary"
ValueFloat == "float"
ValueInteger == "integer"
ValueLiteral == "literal"

\* A map with no entries (Dictionary and Parameters are maps keyed by text).
EmptyMap == [k \in {} |-> 0]

\* m[k] = v
\* A store that leaves a key that is there as it is.
StoreFirst(m, k, v) ==
    [x \in DOMAIN m \cup {k} |-> IF x \in DOMAIN m THEN m[x] ELSE v]

Store(m, k, v) ==
    [x \in DOMAIN m \cup {k} |-> IF x = k THEN v ELSE m[x]]

\* A float is <<m, e>> for m / 10^e, with no trailing zero in m when e > 0.
ZeroFloat == <<0, 0>>

ZeroValue ==
    [Type |-> ValueString, Array |-> <<>>, Boolean |-> FALSE,
     Dictionary |-> EmptyMap, Float |-> ZeroFloat, Integer |-> 0,
     String |-> <<>>, Literal |-> <<>>, Binary |-> <<>>]

\* The digit's value.
DigitVal(c) ==
    CASE c = "0" -> 0 [] c = "1" -> 1 [] c = "2" -> 2 [] c = "3" -> 3
      [] c = "4" -> 4 [] c = "5" -> 5 [] c = "6" -> 6 [] c = "7" -> 7
      [] c = "8" -> 8 [] c = "9" -> 9

\* The value of a run of digits, most significant first.
RECURSIVE DigitsVal(_)
DigitsVal(ds) ==
    IF ds = <<>> THEN 0
    ELSE 10 * DigitsVal(SubSeq(ds, 1, Len(ds) - 1)) + DigitVal(ds[Len(ds)])

AllDigits(ds) == \A i \in DOMAIN ds : ds[i] \in Digit

\* Atoi that reads no sign (strconv.ParseUint in its place).
AtoiUnsigned(txt) ==
    LET signed == txt # <<>> /\ txt[1] \in {"-", "+"}
        ds == IF signed THEN Tail(txt) ELSE txt
    IN  IF ds # <<>> /\ AllDigits(ds)
        THEN [ok |-> TRUE, n |-> DigitsVal(ds)]
        ELSE [ok |-> FALSE, n |-> 0]

\* strconv.Atoi: an optional sign, then one or more digits.  (Texts too long
\* for an int are beyond the inputs of the model.)
Atoi(txt) ==
    LET signed == txt # <<>> /\ txt[1] \in {"-", "+"}
        ds == IF signed THEN Tail(txt) ELSE txt
    IN  IF ds # <<>> /\ AllDigits(ds)
        THEN [ok |-> TRUE,
              n |-> IF signed /\ txt[1] = "-" THEN -DigitsVal(ds)
                    ELSE DigitsVal(ds)]
        ELSE [ok |-> FALSE, n |-> 0]

\* m / 10^e without trailing zeros.
RECURSIVE NormFloat(_, _)
NormFloat(m, e) ==
    IF e > 0 /\ m % 10 = 0 THEN NormFloat(m \div 10, e - 1) ELSE <<m, e>>

\* The index of the first c in txt, 0 when there is none.
RECURSIVE IndexOf(_, _, _)
IndexOf(txt, c, i) ==
    IF i > Len(txt) THEN 0
    ELSE IF txt[i] = c THEN i
    ELSE IndexOf(txt, c, i + 1)

Contains(txt, c) == IndexOf(txt, c, 1) # 0

\* strconv.ParseFloat(txt, 64) on the decimal texts: an optional sign, digits
\* with at most one '.', at least one digit.  (Exponents, hexadecimal floats,
\* underscores, "inf" and "nan" need bytes that the inputs of the model never
\* put after a sign or a digit.)
ParseFloat(txt) ==
    LET signed == txt # <<>> /\ txt[1] \in {"-", "+"}
        body == IF signed THEN Tail(txt) ELSE txt
        dot == IndexOf(body, ".", 1)
        ip == IF dot = 0 THEN body ELSE SubSeq(body, 1, dot - 1)
        fp == IF dot = 0 THEN <<>> ELSE SubSeq(body, dot + 1, Len(body))
        mag == NormFloat(DigitsVal(ip \o fp), Len(fp))
    IN  IF AllDigits(ip) /\ AllDigits(fp) /\ ip \o fp # <<>>
        THEN [ok |-> TRUE,
              f |-> IF signed /\ txt[1] = "-" THEN <<-mag[1], mag[2]>>
                    ELSE mag]
        ELSE [ok |-> FALSE, f |-> ZeroFloat]

\* reverseHexTable of encoding/hex: 16 stands for "no hex digit".
HexVal(c) ==
    CASE c \in Digit -> DigitVal(c)
      [] c \in {"a", "A"} -> 10 [] c \in {"b", "B"} -> 11
      [] c \in {"c", "C"} -> 12 [] c \in {"d", "D"} -> 13
      [] c \in {"e", "E"} -> 14 [] c \in {"f", "F"} -> 15
      [] OTHER -> 16

ErrLength == Leaf("encoding/hex: odd length hex string", <<>>)

InvalidByteError(c) == Leaf("encoding/hex: invalid byte", <<c>>)

\* A decoding that stops without error at the first byte it cannot decode.
RECURSIVE HexDecodeTruncating(_)
HexDecodeTruncating(src) ==
    IF Len(src) < 2 \/ HexVal(src[1]) > 15 \/ HexVal(src[2]) > 15
    THEN [err |-> Nil, bytes |-> <<>>]
    ELSE [err |-> Nil,
          bytes |-> <<16 * HexVal(src[1]) + HexVal(src[2])>>
                    \o HexDecodeTruncating(SubSeq(src, 3, Len(src))).bytes]

\* hex.Decode: pairs from the left, the first bad byte is the error, and an
\* odd length is one only when every byte before was good.
RECURSIVE HexDecode(_)
HexDecode(src) ==
    IF src = <<>> THEN [err |-> Nil, bytes |-> <<>>]
    ELSE IF HexVal(src[1]) > 15
    THEN [err |-> InvalidByteError(src[1]), bytes |-> <<>>]
    ELSE IF Len(src) = 1 THEN [err |-> ErrLength, bytes |-> <<>>]
    ELSE IF HexVal(src[2]) > 15
    THEN [err |-> InvalidByteError(src[2]), bytes |-> <<>>]
    ELSE LET rest == HexDecode(SubSeq(src, 3, Len(src)))
         IN  IF rest.err # Nil THEN rest
             ELSE [err |-> Nil,
                   bytes |-> <<16 * HexVal(src[1]) + HexVal(src[2])>>
                             \o rest.bytes]

ErrSyntax == Leaf("invalid syntax", <<>>)

\* The escapes of a double-quoted Go string that are one byte long.  (\a, \b,
\* \f, \v, octal, \x, \u and \U are not modelled: they come out as ErrSyntax
\* here, and no input of the model holds a backslash before such a byte.)
Unescape(c) ==
    CASE c = "n" -> <<LF>> [] c = "r" -> <<CR>> [] c = "t" -> <<TAB>>
      [] c = "\\" -> <<"\\">> [] c = "\"" -> <<"\"">>
      [] OTHER -> <<>>

RECURSIVE UnquoteBody(_)
UnquoteBody(txt) ==
    IF txt = <<>> THEN [err |-> Nil, str |-> <<>>]
    ELSE IF txt[1] = "\"" THEN [err |-> ErrSyntax, str |-> <<>>]
    ELSE IF txt[1] = "\\"
    THEN IF Len(txt) = 1 \/ Unescape(txt[2]) = <<>>
         THEN [err |-> ErrSyntax, str |-> <<>>]
         ELSE LET rest == UnquoteBody(SubSeq(txt, 3, Len(txt)))
              IN  IF rest.err # Nil THEN rest
                  ELSE [err |-> Nil, str |-> Unescape(txt[2]) \o rest.str]
    ELSE LET rest == UnquoteBody(Tail(txt))
         IN  IF rest.err # Nil THEN rest
             ELSE [err |-> Nil, str |-> <<txt[1]>> \o rest.str]

\* strconv.Unquote of '"' + txt + '"': no raw line feed, no bare quote.
Unquote(txt) ==
    IF Contains(txt, LF) THEN [err |-> ErrSyntax, str |-> <<>>]
    ELSE UnquoteBody(txt)

Good(v) == [v |-> v, err |-> Nil]

Bad(e) == [v |-> ZeroValue, err |-> e]

\* Literal(t.Value[1:]): the text after the slash.
LiteralOfStripped(t) == Tail(t.Value)

\* Literal(t.Value): the text of a Literal token as a key or a value.
LiteralOf(t) == t.Value

\* The default case taken for a value: the zero Value and no error.
badValueAccepted(s, t) == Good(ZeroValue)

\* The default case of parseValue: no value starts with this token.
badValue(s, t) == Bad(UnexpectedTokenError(s, TypeIdentifier, t))

\* parseValue on the tokens that are a value by themselves (every case but
\* TypeStartArray and TypeStartDictionary, which call parseArray and
\* parseDictionary).
parseScalar(s, t) ==
    CASE t.Type = TypeBoolean ->
           Good([ZeroValue EXCEPT !.Type = ValueBoolean,
                                  !.Boolean = (t.Value = tTrue)])
      [] t.Type = TypeLiteral ->
           Good([ZeroValue EXCEPT !.Type = ValueLiteral,
                                  !.Literal = LiteralOf(t)])
      [] t.Type = TypeString ->
           LET u == Unquote(t.Value)
           IN  IF u.err # Nil
               THEN Bad(WrapErrorfW(s, "unquote string value", u.err))
               ELSE Good([ZeroValue EXCEPT !.Type = ValueString,
                                           !.String = u.str])
      [] t.Type = TypeNumber ->
           IF Contains(t.Value, ".")
           THEN LET f == ParseFloat(t.Value)
                IN  IF ~f.ok
                    THEN Bad(WrapErrorfW(s, "parse float value", ErrSyntax))
                    ELSE Good([ZeroValue EXCEPT !.Type = ValueFloat,
                                                !.Float = f.f])
           ELSE LET n == Atoi(t.Value)
                IN  IF ~n.ok
                    THEN Bad(WrapErrorfW(s, "parse int value", ErrSyntax))
                    ELSE Good([ZeroValue EXCEPT !.Type = ValueInteger,
                                                !.Integer = n.n])
      [] t.Type = TypeBinary ->
           LET h == HexDecode(t.Value)
           IN  IF h.err # Nil
               THEN Bad(WrapErrorfW(s, "decode hex data", h.err))
               ELSE Good([ZeroValue EXCEPT !.Type = ValueBinary,
                                           !.Binary = h.bytes])
      [] OTHER -> badValue(s, t)

-----------------------------------------------------------------------------
\* Parse.  A frame is one active call: parseDictionary with its d and the key
\* it holds, or parseArray with its a and idx.

DictFrame == [kind |-> "dict", d |-> EmptyMap, key |-> <<>>, a |-> <<>>, idx |-> 0]

ArrayFrame == [kind |-> "array", d |-> EmptyMap, key |-> <<>>, a |-> <<>>, idx |-> 0]

\* The scanner as the variables hold it.
TheScanner ==
    [buffer |-> buffer, offset |-> offset, line |-> line, token |-> token,
     err |-> err]

\* The token tests of Parse, parseDictionary and parseArray.
IsDictStart(t) == t.Type = TypeStartDictionary

\* No test of the token that names the dictionary.
IsNameAny(t) == TRUE

IsName(t) == t.Type = TypeIdentifier

IsDictEnd(t) == t.Type = TypeEndDictionary

IsKey(t) == t.Type = TypeLiteral

\* Either closer ends the array.
IsArrayEndLoose(t) == t.Type \in {TypeEndArray, TypeEndDictionary}

IsArrayEnd(t) == t.Type = TypeEndArray

Top(stk) == stk[Len(stk)]

Pop(stk) == SubSeq(stk, 1, Len(stk) - 1)

\* The head of the loop of a frame's function.
LoopHead(f) == IF f.kind = "dict" THEN "key" ELSE "elem"

\* What the function of frame f makes of an error of the parseValue it called:
\* parseDictionary names the key, parseArray the index.
ContextErr(f, e) ==
    IF f.kind = "dict"
    THEN MkErr("parse value of", 0, -1, "", "", f.key, <<e>>)
    ELSE MkErr("parse value at index", 0, f.idx, "", "", <<>>, <<e>>)

\* The end of input in the array of frame f, named with the index reached.
arrayEOFIndexed(f) == ContextErr(f, ErrUnexpectedEOF)

\* What parseArray returns when Scan returns false: the bare error.
arrayEOF(f) == ErrUnexpectedEOF

\* The function of the top frame of stk returns error e: what Parse returns.
\* parseValue hands the error of parseArray and parseDictionary on as it is,
\* the calling frame adds its context, and Parse wraps what the outermost
\* parseDictionary returns.
RECURSIVE Unwind(_, _)
Unwind(stk, e) ==
    IF Len(stk) = 1
    THEN Wrap("parse parameter dictionary", e)
    ELSE Unwind(Pop(stk), ContextErr(stk[Len(stk) - 1], e))

\* The function of the top frame of stk takes value v: d[key] = value in
\* parseDictionary, idx++ and a = append(a, value) in parseArray.
Deliver(stk, v) ==
    LET f == Top(stk)
    IN  Append(Pop(stk),
               IF f.kind = "dict"
               THEN [f EXCEPT !.d = Store(f.d, f.key, v)]
               ELSE [f EXCEPT !.idx = @ + 1, !.a = Append(@, v)])

\* What parseDictionary returns at TypeEndDictionary, as parseValue wraps it.
DictValue(f) ==
    [ZeroValue EXCEPT !.Type = ValueDictionary, !.Dictionary = f.d]

\* What parseArray returns at TypeEndArray.
ArrayValue(f) == [ZeroValue EXCEPT !.Type = ValueArray, !.Array = f.a]

NoReturn == [returned |-> FALSE, nil |-> TRUE, params |-> EmptyMap, err |-> Nil]

\* return params, e: the dictionaries completed so far go out with the error.
ReturnErrPartial(e) ==
    [returned |-> TRUE, nil |-> FALSE, params |-> params, err |-> e]

\* return nil, e
ReturnErr(e) == [returned |-> TRUE, nil |-> TRUE, params |-> EmptyMap, err |-> e]

\* return params, nil
ReturnOk(m) == [returned |-> TRUE, nil |-> FALSE, params |-> m, err |-> Nil]

\* The call of Scan every step starts with: the scanner's fields as Scan
\* leaves them, and the histories.
Scanned(r, at) ==
    /\ buffer' = r.s.buffer
    /\ offset' = r.s.offset
    /\ line' = r.s.line
    /\ token' = r.s.token
    /\ err' = r.s.err
    /\ trace' = IF r.ok
                THEN Append(trace, [tok |-> r.s.token, at |-> at,
                                    end |-> r.s.offset])
                ELSE trace
    /\ eofAt' = IF ~r.ok /\ eofAt = "" THEN at ELSE eofAt
    /\ errLog' = IF r.s.err # err THEN Append(errLog, r.s.err) ELSE errLog

\* Parse returns (nil, e).
Fail(e) ==
    /\ pc' = "done"
    /\ ret' = ReturnErr(e)
    /\ UNCHANGED <<stack, cur, params, pairs>>

\* parseValue(p, t) called by the function of the top frame.
TakeValue(s, t) ==
    IF t.Type = TypeStartArray
    THEN /\ stack' = Append(stack, ArrayFrame)
         /\ pc' = "elem"
         /\ UNCHANGED <<cur, params, pairs, ret>>
    ELSE IF t.Type = TypeStartDictionary
    THEN /\ stack' = Append(stack, DictFrame)
         /\ pc' = "key"
         /\ UNCHANGED <<cur, params, pairs, ret>>
    ELSE LET r == parseScalar(s, t)
         IN  IF r.err # Nil
             THEN Fail(Unwind(stack, ContextErr(Top(stack), r.err)))
             ELSE /\ stack' = Deliver(stack, r.v)
                  /\ pc' = LoopHead(Top(stack))
                  /\ UNCHANGED <<cur, params, pairs, ret>>

\* The function of the top frame returns value v to the parseValue that
\* called it, or, for the outermost parseDictionary, its d to Parse.
Finish(v) ==
    IF Len(stack) = 1
    THEN /\ cur' = v.Dictionary
         /\ stack' = <<>>
         /\ pc' = "name"
         /\ UNCHANGED <<params, pairs, ret>>
    ELSE /\ stack' = Deliver(Pop(stack), v)
         /\ pc' = LoopHead(stack[Len(stack) - 1])
         /\ UNCHANGED <<cur, params, pairs, ret>>

\* Parse, the head of its loop: p.Scan(), then either the end of the loop and
\* the final p.Err() check, or the token that must open a dictionary.
ParseTop ==
    /\ client = "parse" /\ pc = "top"
    /\ LET r == Scan(TheScanner)
       IN  /\ Scanned(r, "top")
           /\ IF ~r.ok
              THEN /\ pc' = "done"
                   /\ ret' = IF Err(r.s) # Nil
                             THEN ReturnErr(Wrap("parse data", Err(r.s)))
                             ELSE ReturnOk(params)
                   /\ UNCHANGED <<stack, cur, params, pairs>>
              ELSE IF ~IsDictStart(r.s.token)
              THEN Fail(UnexpectedTokenError(r.s, TypeStartDictionary,
                                             r.s.token))
              ELSE /\ stack' = <<DictFrame>>
                   /\ pc' = "key"
                   /\ UNCHANGED <<cur, params, pairs, ret>>
    /\ UNCHANGED <<client, polls>>

\* Parse after parseDictionary: the name of the dictionary.
ParseName ==
    /\ client = "parse" /\ pc = "name"
    /\ LET r == Scan(TheScanner)
       IN  /\ Scanned(r, "name")
           /\ IF ~r.ok
              THEN Fail(WrapErrorf(r.s, "parse parameter dictionary name"))
              ELSE IF ~IsName(r.s.token)
              THEN Fail(UnexpectedTokenError(r.s, TypeIdentifier, r.s.token))
              ELSE /\ params' = Store(params, r.s.token.Value, cur)
                   /\ pairs' = Append(pairs, [name |-> r.s.token.Value,
                                              d |-> cur])
                   /\ pc' = "top"
                   /\ UNCHANGED <<stack, cur, ret>>
    /\ UNCHANGED <<client, polls>>

\* parseDictionary, the head of its loop: the end of the dictionary or a key.
DictKey ==
    /\ client = "parse" /\ pc = "key"
    /\ LET r == Scan(TheScanner)
           t == r.s.token
       IN  /\ Scanned(r, "key")
           /\ IF ~r.ok
              THEN Fail(Unwind(stack, ErrUnexpectedEOF))
              ELSE IF IsDictEnd(t)
              THEN Finish(DictValue(Top(stack)))
              ELSE IF ~IsKey(t)
              THEN Fail(Unwind(stack,
                               UnexpectedTokenError(r.s, TypeLiteral, t)))
              ELSE /\ stack' = Append(Pop(stack),
                                      [Top(stack) EXCEPT !.key = LiteralOf(t)])
                   /\ pc' = "value"
                   /\ UNCHANGED <<cur, params, pairs, ret>>
    /\ UNCHANGED <<client, polls>>

\* parseDictionary after a key: the value of the key.
DictVal ==
    /\ client = "parse" /\ pc = "value"
    /\ LET r == Scan(TheScanner)
       IN  /\ Scanned(r, "value")
           /\ IF ~r.ok
              THEN Fail(Unwind(stack,
                               WrapErrorf(r.s, "parse dictionary value")))
              ELSE TakeValue(r.s, r.s.token)
    /\ UNCHANGED <<client, polls>>

\* parseArray, one turn of its loop: the end of the array or an element.
ArrayElem ==
    /\ client = "parse" /\ pc = "elem"
    /\ LET r == Scan(TheScanner)
       IN  /\ Scanned(r, "elem")
           /\ IF ~r.ok
              THEN Fail(Unwind(stack, arrayEOF(Top(stack))))
              ELSE IF IsArrayEnd(r.s.token)
              THEN Finish(ArrayValue(Top(stack)))
              ELSE TakeValue(r.s, r.s.token)
    /\ UNCHANGED <<client, polls>>

\* A bare client of the Scanner: for s.Scan() {}, then s.Err().
ScanLoop ==
    /\ client = "scan" /\ pc = "scan"
    /\ LET r == Scan(TheScanner)
       IN  /\ Scanned(r, "scan")
           /\ pc' = IF r.ok THEN "scan" ELSE "end"
           /\ ret' = IF r.ok THEN ret
                     ELSE [NoReturn EXCEPT !.returned = TRUE, !.err = Err(r.s)]
    /\ UNCHANGED <<client, stack, cur, params, pairs, polls>>

\* The bare client calls Scan again after Scan has returned false.
Poll ==
    /\ client = "scan" /\ pc = "end" /\ polls < MaxPolls
    /\ LET r == Scan(TheScanner)
       IN  Scanned(r, "poll")
    /\ polls' = polls + 1
    /\ UNCHANGED <<client, pc, stack, cur, params, pairs, ret>>

Next ==
    \/ ParseTop
    \/ ParseName
    \/ DictKey
    \/ DictVal
    \/ ArrayElem
    \/ ScanLoop
    \/ Poll

-----------------------------------------------------------------------------
\* Inputs: every concatenation of at most MaxChunks chunks of an alphabet.

RECURSIVE Flatten(_)
Flatten(cs) == IF cs = <<>> THEN <<>> ELSE Head(cs) \o Flatten(Tail(cs))

Inputs(alphabet) ==
    {Flatten(cs) : cs \in UNION {[1..n -> alphabet] : n \in 0..MaxChunks}}

\* The state after NewScanner(data): Parse(data) on the inputs over one
\* alphabet, a bare client on the inputs over another.
InitWith(parsed, scanned) ==
    /\ client \in {"parse", "scan"}
    /\ buffer \in IF client = "parse" THEN Inputs(parsed) ELSE Inputs(scanned)
    /\ offset = 0
    /\ line = 1
    /\ token = ZeroToken
    /\ err = Nil
    /\ pc = IF client = "parse" THEN "top" ELSE "scan"
    /\ stack = <<>>
    /\ cur = EmptyMap
    /\ params = EmptyMap
    /\ ret = NoReturn
    /\ trace = <<>>
    /\ eofAt = ""
    /\ errLog = <<>>
    /\ pairs = <<>>
    /\ polls = 0

\* Chunks of input.
cStart == <<"<", "<">>
cEnd == <<">", ">">>
cName == <<"a", " ">>
cKey == <<"/", "A", " ">>
cOpen == <<"[">>
cClose == <<"]">>
cBad == <<"?">>
cKeyArray == <<"/", "A", " ", "[">>
cKeyDict == <<"/", "A", " ", "<", "<">>
cEndName == <<">", ">", "a", " ">>
cKeyLit == <<"/", "A", " ", "/", "F", " ">>

\* Bytes for a bare client: every kind of lexical error, tokens that end
\* well, and white space with and without a line feed.
ScanAlphabet == {<<"(">>, <<")">>, <<"1">>, <<".">>, <<"?">>, <<LF>>, <<SP>>}

\* Documents and their damage: dictionaries, keys, values, arrays, names, and
\* a byte that starts no token.
DocAlphabet == {cStart, cEnd, cName, cKey, cOpen, cClose, cBad}

Init == InitWith(DocAlphabet, ScanAlphabet)

Spec == Init /\ [][Next]_vars

\* Whole named dictionaries one after the other: a dictionary closed with and
\* without its name, a key with a literal value, a key with an open array.
TopAlphabet == {cStart, cEnd, cName, cEndName, cKeyLit, cKeyArray, cClose}

InitTop == InitWith(TopAlphabet, ScanAlphabet)

SpecTop == InitTop /\ [][Next]_vars

\* Ends of input for a bare client: strings and binaries, closed and not,
\* white space with and without a line feed, and a word.
EndAlphabet == {<<"(">>, <<")">>, <<"<">>, <<">">>, <<"a">>, <<LF>>, <<SP>>}

InitEnd == InitWith(DocAlphabet, EndAlphabet)

SpecEnd == InitEnd /\ [][Next]_vars

\* A dictionary that is one array, open and closed.
cOpenArray == tStart \o <<"/", "A", SP, "[">>
cCloseArray == <<"]">> \o tEnd \o <<"a", SP>>

\* Numerals in pieces: digits, a sign with a digit, a fraction, a separator.
NumAlphabet ==
    {cOpenArray, cCloseArray, <<"1", "2">>, <<"-", "3">>, <<".", "5">>,
     <<"-">>, <<SP>>}

NumBytes == {<<"1">>, <<"-">>, <<".">>, <<"a">>, <<SP>>}

InitNum == InitWith(NumAlphabet, NumBytes)

SpecNum == InitNum /\ [][Next]_vars

\* Numerals and booleans as the elements of an array.
ValAlphabet ==
    {cOpenArray, cCloseArray, <<"1", "2">>, <<"-", "3", SP>>, <<".", "5", SP>>,
     tTrue \o <<SP>>, tFalse \o <<SP>>}

InitVal == InitWith(ValAlphabet, NumBytes)

SpecVal == InitVal /\ [][Next]_vars

\* Binaries in pieces as the elements of an array: an open binary with one
\* byte, another byte with the close, half a byte, a byte that is no hex
\* digit, the close.
BinAlphabet ==
    {cOpenArray, cCloseArray, <<"<", "4", "8">>, <<"6", "9", ">">>, <<"4">>,
     <<"G">>, <<">">>}

BinBytes == {<<"<">>, <<">">>, <<"4">>, <<"G">>, <<SP>>}

InitBin == InitWith(BinAlphabet, BinBytes)

SpecBin == InitBin /\ [][Next]_vars

\* Keys with integer values, the same key with two values, and a dictionary
\* that opens with a pair.
cPairA1 == <<"/", "A", SP, "1", SP>>
cPairA2 == <<"/", "A", SP, "2", SP>>
cPairB1 == <<"/", "B", SP, "1", SP>>

DupAlphabet ==
    {cStart, cEndName, cPairA1, cPairA2, cPairB1, tStart \o cPairA1, cKeyArray}

InitDup == InitWith(DupAlphabet, NumBytes)

SpecDup == InitDup /\ [][Next]_vars

\* Words in pieces: the names of the booleans, a letter, a separator.
WordAlphabet ==
    {cStart, cEnd, cKeyArray, tTrue, tFalse, <<"a">>, <<SP>>}

WordBytes == {tTrue, tFalse, <<"a">>, <<SP>>}

InitWord == InitWith(WordAlphabet, WordBytes)

SpecWord == InitWord /\ [][Next]_vars

\* Every kind of capture on a short alphabet, for the runs to their end:
\* Parse and the bare loop under weak fairness of the next step, which says
\* only that a client that can take a step does take one.
cOne == <<"1", SP>>

LiveAlphabet == {cOpenArray, cCloseArray, cOne}

LiveBytes == {<<"(">>, <<")">>, <<SP>>}

InitLive == InitWith(LiveAlphabet, LiveBytes)

SpecLive == InitLive /\ [][Next]_vars /\ WF_vars(Next)

\* Nesting: a key with an open array or an open dictionary as its value, and
\* the closers in every order.
NestAlphabet == {cStart, cEnd, cName, cKeyArray, cKeyDict, cOpen, cClose}

InitNest == InitWith(NestAlphabet, ScanAlphabet)

SpecNest == InitNest /\ [][Next]_vars

-----------------------------------------------------------------------------
\* Properties.

Parsed == client = "parse" /\ pc = "done"

Failed == Parsed /\ ret.err # Nil

Succeeded == Parsed /\ ret.err = Nil

\* C1: a lexical error the scanner recorded during Parse is never lost: Parse
\* fails and the error it returns has the recorded error in its chain.
C1_LexicalErrorKept ==
    (Parsed /\ err # Nil) => (ret.err # Nil /\ err \in Chain(ret.err))

\* C2: the error latch.  Once an error is recorded no step changes the cursor
\* offset, the line, the current token or the recorded error, no step gets
\* another token from Scan, and no second error is ever recorded.
C2_ErrorLatch ==
    /\ [](Len(errLog) <= 1)
    /\ [][err # Nil =>
            /\ err' = err
            /\ offset' = offset
            /\ line' = line
            /\ token' = token
            /\ trace' = trace
            /\ errLog' = errLog]_vars

\* Scan has been called twice more after it recorded an error.
C2_Witness == err # Nil /\ polls = 2 /\ Len(trace) > 0


LastToken == trace[Len(trace)].tok

\* The value the innermost active call stored last.
LastStored ==
    LET f == Top(stack)
    IN  IF f.kind = "dict" THEN f.d[f.key] ELSE f.a[Len(f.a)]

\* A step has just stored the value of a Literal token.
LiteralStored ==
    /\ client = "parse" /\ pc \in {"key", "elem"} /\ trace # <<>>
    /\ trace[Len(trace)].at \in {"value", "elem"}
    /\ LastToken.Type = TypeLiteral

\* A step has just taken a Literal token as a key.
KeyTaken == client = "parse" /\ pc = "value"

LiteralValue(txt) ==
    [ZeroValue EXCEPT !.Type = ValueLiteral, !.Literal = txt]

RECURSIVE LFCount(_)
LFCount(txt) ==
    IF txt = <<>> THEN 0
    ELSE (IF Head(txt) = LF THEN 1 ELSE 0) + LFCount(Tail(txt))

\* C4: line tracking.  When the scanner has recorded a lexical error, the line
\* it reports is 1 plus the number of LF bytes of the input before the
\* position where the error was detected, also when line feeds lie inside
\* string or binary tokens or inside the unterminated token.
C4_LineIsLFCount ==
    err # Nil => line = 1 + LFCount(Slice(buffer, 0, offset))

\* C5: every error Parse returns carries a line number: on each failing path
\* the returned error is wrapped with the scanner's current 1-based line.
C5_ErrorHasLine ==
    Failed => \E e \in Chain(ret.err) : e.msg = "on line" /\ e.line = line

\* C6: all or nothing.  Parse returns either a Parameters map with a nil
\* error or nil Parameters with an error; the dictionaries completed before
\* the failure never go out with the error.
C6_AllOrNothing ==
    Parsed =>
        /\ ret.returned
        /\ \/ ret.err = Nil /\ ~ret.nil /\ ret.params = params
           \/ ret.err # Nil /\ ret.nil /\ DOMAIN ret.params = {}

\* Parse has failed after it had completed and stored a dictionary.
C6_Witness == Failed /\ DOMAIN params # {}


\* The types of the tokens of a trace.
TypesOf(tr) == [i \in DOMAIN tr |-> tr[i].tok.Type]

\* How many of types are ty.
Count(types, ty) == Cardinality({i \in DOMAIN types : types[i] = ty})

\* The tokens of a bare loop over the whole input: for s.Scan() {}.
RECURSIVE ScanAll(_)
ScanAll(s) ==
    LET r == Scan(s)
    IN  IF r.ok THEN <<r.s.token>> \o ScanAll(r.s) ELSE <<>>

AllTypes(data) ==
    LET toks == ScanAll(NewScanner(data))
    IN  [i \in DOMAIN toks |-> toks[i].Type]

\* Every closer of types closes the most recent unclosed opener, which is of
\* its kind, and no opener is left unclosed.  open: the unclosed openers.
RECURSIVE WellNested(_, _)
WellNested(types, open) ==
    IF types = <<>> THEN open = <<>>
    ELSE LET ty == Head(types)
         IN  CASE ty \in {TypeStartDictionary, TypeStartArray} ->
                    WellNested(Tail(types), Append(open, ty))
               [] ty = TypeEndDictionary ->
                    /\ open # <<>>
                    /\ open[Len(open)] = TypeStartDictionary
                    /\ WellNested(Tail(types), Pop(open))
               [] ty = TypeEndArray ->
                    /\ open # <<>>
                    /\ open[Len(open)] = TypeStartArray
                    /\ WellNested(Tail(types), Pop(open))
               [] OTHER -> WellNested(Tail(types), open)

Balanced(types) ==
    /\ WellNested(types, <<>>)
    /\ Count(types, TypeStartDictionary) = Count(types, TypeEndDictionary)
    /\ Count(types, TypeStartArray) = Count(types, TypeEndArray)

\* C7: balanced nesting.  When Parse succeeds the tokens it consumed hold as
\* many StartDictionary as EndDictionary and as many StartArray as EndArray
\* tokens, correctly nested; an input whose tokens are not balanced this way
\* makes Parse fail.
C7_Balanced ==
    /\ Succeeded => Balanced(TypesOf(trace))
    /\ (Parsed /\ ~Balanced(AllTypes(buffer))) => ret.err # Nil

\* Parse has succeeded on a dictionary that holds a closed array.
C7_Witness ==
    /\ Succeeded
    /\ Count(TypesOf(trace), TypeStartArray) > 0
    /\ Count(TypesOf(trace), TypeStartDictionary) > 0

\* types is a repetition of (a group that opens with StartDictionary and runs
\* to the closer that ends it, an Identifier).  depth: the unclosed openers.
RECURSIVE DocShape(_, _, _)
DocShape(types, depth, wantName) ==
    IF types = <<>> THEN depth = 0 /\ ~wantName
    ELSE LET ty == Head(types)
             d2 == CASE ty \in {TypeStartDictionary, TypeStartArray} -> depth + 1
                     [] ty \in {TypeEndDictionary, TypeEndArray} -> depth - 1
                     [] OTHER -> depth
         IN  IF depth > 0 THEN DocShape(Tail(types), d2, d2 = 0)
             ELSE IF wantName
             THEN ty = TypeIdentifier /\ DocShape(Tail(types), 0, FALSE)
             ELSE ty = TypeStartDictionary /\ DocShape(Tail(types), 1, FALSE)

\* The last token taken stood at position at and its type is not in types.
LastTokenNot(at, types) ==
    /\ client = "parse" /\ trace # <<>>
    /\ trace[Len(trace)].at = at
    /\ LastToken.Type \notin types

\* What C8 says of the structure: the shape on success, and the failures.
TopLevelShape ==
    /\ Succeeded => DocShape(TypesOf(trace), 0, FALSE)
    /\ LastTokenNot("top", {TypeStartDictionary}) => Failed
    /\ LastTokenNot("name", {TypeIdentifier}) => Failed
    /\ (client = "parse" /\ eofAt = "name") => Failed

\* The last pair stored under the name of pair i.
LastPair(i) ==
    LET same == {j \in DOMAIN pairs : pairs[j].name = pairs[i].name}
    IN  pairs[CHOOSE j \in same : \A k \in same : k <= j]

\* C8 as stated: Parse succeeds only if the top-level tokens are a repetition
\* of (complete dictionary, Identifier); another top-level token, another
\* token after a dictionary or the end of input after a dictionary makes
\* Parse fail; on success each trailing identifier is a key of the result,
\* mapped to the dictionary that preceded it.
C8_TopLevel ==
    /\ TopLevelShape
    /\ Succeeded =>
         \A i \in DOMAIN pairs :
            /\ pairs[i].name \in DOMAIN ret.params
            /\ ret.params[pairs[i].name] = pairs[i].d

\* C8 as amended: the same, but on success each trailing identifier is a key
\* of the result mapped to the dictionary that preceded its last occurrence.
C8_TopLevelLast ==
    /\ TopLevelShape
    /\ Succeeded =>
         /\ DOMAIN ret.params = {pairs[i].name : i \in DOMAIN pairs}
         /\ \A i \in DOMAIN pairs :
               ret.params[pairs[i].name] = LastPair(i).d

\* Parse has succeeded on two dictionaries of one name, the first empty and
\* the second not.
C8_Witness ==
    /\ Succeeded
    /\ Len(pairs) = 2
    /\ pairs[1].name = pairs[2].name
    /\ DOMAIN pairs[1].d = {}
    /\ DOMAIN pairs[2].d # {}

Scalars == {TypeBoolean, TypeLiteral, TypeString, TypeNumber, TypeBinary}

\* The grammar of a document over token types, as a pushdown recogniser.  ctx
\* is the stack of positions: "top" and "name" at the bottom, "dk" and "dv"
\* for the key and the value position of a dictionary, "a" for an array.
RECURSIVE Grammar(_, _)
Grammar(types, ctx) ==
    IF types = <<>> THEN ctx = <<"top">>
    ELSE LET ty == Head(types)
             rest == Tail(types)
             here == ctx[Len(ctx)]
             \* the position after a value has been taken at this one
             after == Append(Pop(ctx), IF here = "dv" THEN "dk" ELSE here)
         IN  CASE here = "top" ->
                    /\ ty = TypeStartDictionary
                    /\ Grammar(rest, <<"name", "dk">>)
               [] here = "name" ->
                    /\ ty = TypeIdentifier
                    /\ Grammar(rest, <<"top">>)
               [] here = "dk" ->
                    \/ ty = TypeEndDictionary /\ Grammar(rest, Pop(ctx))
                    \/ ty = TypeLiteral /\ Grammar(rest, Append(Pop(ctx), "dv"))
               [] here = "a" /\ ty = TypeEndArray -> Grammar(rest, Pop(ctx))
               [] OTHER ->
                    \/ ty \in Scalars /\ Grammar(rest, after)
                    \/ ty = TypeStartArray /\ Grammar(rest, Append(after, "a"))
                    \/ ty = TypeStartDictionary
                       /\ Grammar(rest, Append(after, "dk"))

\* C9: the body of a dictionary.  A token in key position is a Literal or
\* EndDictionary and every key is followed by exactly one value, so the
\* tokens of a successful Parse follow the grammar; a key followed by '>>',
\* by ']', by an Identifier or by the end of input makes Parse fail with an
\* error, and no dictionary with that key is returned.
C9_DictionaryBody ==
    /\ Succeeded => Grammar(TypesOf(trace), <<"top">>)
    /\ LastTokenNot("key", {TypeLiteral, TypeEndDictionary}) => Failed
    /\ LastTokenNot("value", Scalars \cup {TypeStartArray, TypeStartDictionary})
         => (Failed /\ ret.nil)
    /\ (client = "parse" /\ eofAt = "value") => (Failed /\ ret.nil)

\* Parse has failed on '>>' in the place of the value of a key.
C9_Witness ==
    /\ Failed /\ trace # <<>>
    /\ trace[Len(trace)].at = "value"
    /\ LastToken.Type = TypeEndDictionary
    /\ Top(stack).key = <<"/", "A">>


\* The indexes an error is annotated with, outermost first.
RECURSIVE IdxSeq(_)
IdxSeq(e) ==
    LET RECURSIVE Inner(_)
        Inner(i) == IF i > Len(e.inner) THEN <<>>
                    ELSE IdxSeq(e.inner[i]) \o Inner(i + 1)
    IN  (IF e.msg = "parse value at index" THEN <<e.idx>> ELSE <<>>)
        \o Inner(1)

\* The number of elements already parsed in each active array among the
\* first n calls, outermost first.
RECURSIVE ArrayCounts(_, _)
ArrayCounts(stk, n) ==
    IF n = 0 THEN <<>>
    ELSE ArrayCounts(stk, n - 1)
         \o (IF stk[n].kind = "array" THEN <<Len(stk[n].a)>> ELSE <<>>)

\* Scan has returned false in an array with no error recorded: the input ended.
EofInArray == client = "parse" /\ eofAt = "elem" /\ err = Nil

\* C10 as stated: when the input ends inside an array before its EndArray
\* token, the error is annotated with the index of the element at which
\* parsing stopped, the number of elements already parsed in that array.
C10_EofIndexed ==
    EofInArray =>
        /\ Failed
        /\ \E e \in Chain(ret.err) :
              /\ e.msg = "parse value at index"
              /\ e.idx = Len(Top(stack).a)
              /\ ErrUnexpectedEOF \in Chain(e)

\* C10 as amended: when the input ends inside an array before its EndArray
\* token, array parsing returns the bare unexpected-end-of-input error with
\* no index of that array (only the arrays around it add the index of the
\* element each was parsing); the index of the element at which parsing
\* stopped, the number of elements already parsed in that array, annotates
\* the error of an element's value.
C10_IndexOnValueErrors ==
    /\ EofInArray =>
          /\ Failed
          /\ ErrUnexpectedEOF \in Chain(ret.err)
          /\ IdxSeq(ret.err) = ArrayCounts(stack, Len(stack) - 1)
    /\ (Failed /\ trace # <<>> /\ trace[Len(trace)].at = "elem"
        /\ eofAt = "") =>
          IdxSeq(ret.err) = ArrayCounts(stack, Len(stack))

\* The input has ended inside an array that holds one element already.
C10_Witness == EofInArray /\ Failed /\ Len(Top(stack).a) = 1


AllWs(txt) == \A i \in DOMAIN txt : txt[i] \in ws

\* Where the cursor stood before token i of the trace was scanned.
StartOf(i) == IF i = 1 THEN 0 ELSE trace[i - 1].end

\* Where the cursor stood when Scan was last called with a result.
LastEnd == IF trace = <<>> THEN 0 ELSE trace[Len(trace)].end

\* The bytes that remained when Scan first returned false.
Remaining == Slice(buffer, LastEnd, Len(buffer))

\* txt without the white space it starts with.
RECURSIVE TrimLeft(_)
TrimLeft(txt) ==
    IF txt # <<>> /\ Head(txt) \in ws THEN TrimLeft(Tail(txt)) ELSE txt

\* txt opens a string or a binary that nothing closes: white space, then '('
\* with no ')' after it, or a single '<' with no '>' after it.
Unterminated(txt) ==
    LET t == TrimLeft(txt)
    IN  /\ t # <<>>
        /\ \/ t[1] = "(" /\ ~Contains(t, ")")
           \/ t[1] = "<" /\ ~HasPrefix(t, tStart) /\ ~Contains(t, ">")

\* C11: clean and dirty end of input.  Scan returns false with no recorded
\* error exactly when the bytes that remain from the cursor are empty or all
\* white space: it has returned a token only where something else remained,
\* and when it first returns false no error is recorded exactly if only
\* white space remained.  If the input ends after an opening '(' or a single
\* '<' with no closing ')' or '>', Scan returns false, gives no token for it
\* and records an unexpected-end-of-input error.
C11_CleanOrDirtyEnd ==
    /\ \A i \in DOMAIN trace :
          /\ ~AllWs(Slice(buffer, StartOf(i), trace[i].end))
          /\ ~Unterminated(Slice(buffer, StartOf(i), Len(buffer)))
    /\ eofAt # "" => (err = Nil <=> AllWs(Remaining))
    /\ (eofAt # "" /\ Unterminated(Remaining)) =>
          /\ err = Wrap("expected end of string", ErrUnexpectedEOF)
          /\ ErrUnexpectedEOF \in Chain(err)
          /\ offset = Len(buffer)
    /\ (eofAt = "" /\ pc \in {"scan", "top", "name", "key", "value", "elem"}) =>
          err = Nil

\* A bare client has met the end of input inside a binary that follows a
\* closed string and white space.
C11_Witness ==
    /\ client = "scan" /\ eofAt # "" /\ Len(trace) > 0
    /\ trace[Len(trace)].tok.Type = TypeString
    /\ Unterminated(Remaining)
    /\ TrimLeft(Remaining)[1] = "<"
    /\ Remaining[1] \in ws

\* How many '.' txt holds.
DotCount(txt) == Cardinality({i \in DOMAIN txt : txt[i] = "."})

\* The digits and '.' that txt starts with.
RECURSIVE NumeralRun(_)
NumeralRun(txt) ==
    IF txt # <<>> /\ Head(txt) \in Digit \cup {"."}
    THEN <<Head(txt)>> \o NumeralRun(Tail(txt))
    ELSE <<>>

\* After white space txt starts a numeral, with a digit or with '-', whose
\* digits and points hold a second '.'.
SecondPoint(txt) ==
    LET t == TrimLeft(txt)
    IN  /\ t # <<>>
        /\ t[1] \in Digit \cup {"-"}
        /\ DotCount(NumeralRun(Tail(t))) >= 2

\* C12: a second decimal point is a lexical error for every numeral, whether
\* it starts with a digit or with '-': Scan gives no token where such a
\* numeral starts, it returns false there with the error "unexpected
\* character '.'" recorded, and no Number token holds two '.'.
C12_SecondPointIsLexical ==
    /\ \A i \in DOMAIN trace :
          /\ ~SecondPoint(Slice(buffer, StartOf(i), Len(buffer)))
          /\ trace[i].tok.Type = TypeNumber => DotCount(trace[i].tok.Value) <= 1
    /\ (eofAt # "" /\ SecondPoint(Remaining)) =>
          err = Leaf("unexpected character '.'", <<>>)

\* optional '-', one or more digits, optionally '.' and one or more digits
NumeralForm(txt) ==
    LET body == IF txt # <<>> /\ txt[1] = "-" THEN Tail(txt) ELSE txt
        dot == IndexOf(body, ".", 1)
        ip == IF dot = 0 THEN body ELSE SubSeq(body, 1, dot - 1)
        fp == SubSeq(body, dot + 1, Len(body))
    IN  /\ ip # <<>> /\ AllDigits(ip)
        /\ dot # 0 => (fp # <<>> /\ AllDigits(fp))

\* C17: the scanner gates numerals.  Every Number token it gives has the form
\* optional '-', digits, optionally '.' and digits, and no error that Parse
\* returns comes from converting a numeral.
C17_NumeralsGated ==
    /\ \A i \in DOMAIN trace :
          trace[i].tok.Type = TypeNumber => NumeralForm(trace[i].tok.Value)
    /\ \A e \in Chain(ret.err) :
          e.msg \notin {"parse int value", "parse float value"}

\* A step has just stored the value of a token of type ty.
ScalarStored(ty) ==
    /\ client = "parse" /\ pc \in {"key", "elem"} /\ trace # <<>>
    /\ trace[Len(trace)].at \in {"value", "elem"}
    /\ LastToken.Type = ty

\* The number a run of digits writes, read from the left.
RECURSIVE Horner(_, _)
Horner(ds, acc) ==
    IF ds = <<>> THEN acc ELSE Horner(Tail(ds), 10 * acc + DigitVal(Head(ds)))

\* The signed decimal value of a numeral without '.'.
SignedDecimal(txt) ==
    IF txt[1] = "-" THEN 0 - Horner(Tail(txt), 0) ELSE Horner(txt, 0)

IntegerValue(n) == [ZeroValue EXCEPT !.Type = ValueInteger, !.Integer = n]

FloatValue(f) == [ZeroValue EXCEPT !.Type = ValueFloat, !.Float = f]

BooleanValue(b) == [ZeroValue EXCEPT !.Type = ValueBoolean, !.Boolean = b]

\* C13: number typing.  The value stored for a Number token is a Float when
\* the token has a '.', and otherwise the Integer of the signed decimal value
\* of its text: "12" gives Integer 12, "-3" Integer -3, "12.5" the Float 12.5.
\* The value stored for a Boolean token is Boolean true iff the token is
\* exactly "true".
C13_NumberTyping ==
    /\ ScalarStored(TypeNumber) =>
          /\ Contains(LastToken.Value, ".") =>
                /\ LastStored.Type = ValueFloat
                /\ LastStored = FloatValue(LastStored.Float)
          /\ ~Contains(LastToken.Value, ".") =>
                LastStored = IntegerValue(SignedDecimal(LastToken.Value))
          /\ LastToken.Value = <<"1", "2">> => LastStored = IntegerValue(12)
          /\ LastToken.Value = <<"-", "3">> => LastStored = IntegerValue(-3)
          /\ LastToken.Value = <<"1", "2", ".", "5">> =>
                LastStored = FloatValue(<<125, 1>>)
    /\ ScalarStored(TypeBoolean) =>
          LastStored = BooleanValue(LastToken.Value = <<"t", "r", "u", "e">>)

\* An array holds the Float 12.5, Boolean false and then the Integer -3.
C13_Witness ==
    /\ ScalarStored(TypeNumber)
    /\ LastToken.Value = <<"-", "3">>
    /\ Top(stack).a =
          <<FloatValue(<<125, 1>>), BooleanValue(FALSE), IntegerValue(-3)>>

HexLower ==
    <<"0", "1", "2", "3", "4", "5", "6", "7", "8", "9",
      "a", "b", "c", "d", "e", "f">>

HexUpper ==
    <<"0", "1", "2", "3", "4", "5", "6", "7", "8", "9",
      "A", "B", "C", "D", "E", "F">>

IsHex(c) == \E n \in 1..16 : c \in {HexLower[n], HexUpper[n]}

HexOf(c) == (CHOOSE n \in 1..16 : c \in {HexLower[n], HexUpper[n]}) - 1

WellFormedHex(txt) == Len(txt) % 2 = 0 /\ \A i \in DOMAIN txt : IsHex(txt[i])

\* The bytes that an even run of hex digits writes.
HexBytes(txt) ==
    [i \in 1..(Len(txt) \div 2) |->
        16 * HexOf(txt[2 * i - 1]) + HexOf(txt[2 * i])]

BinaryValue(b) == [ZeroValue EXCEPT !.Type = ValueBinary, !.Binary = b]

\* Parse has just taken a token of type ty where a value stands.
ValueToken(ty) ==
    /\ client = "parse" /\ trace # <<>>
    /\ trace[Len(trace)].at \in {"value", "elem"}
    /\ LastToken.Type = ty

\* C14: binary decoding.  The value stored for a Binary token is the hex
\* decoding of the bytes between '<' and '>', which are an even number of
\* hex digits ("<4869>" gives the bytes 0x48, 0x69).  When Parse takes a
\* Binary token of odd length or with a byte that is no hex digit, it fails
\* with a decode error and returns nil Parameters: no Binary value is made
\* from such a token.
C14_BinaryDecoding ==
    /\ ScalarStored(TypeBinary) =>
          /\ WellFormedHex(LastToken.Value)
          /\ LastStored = BinaryValue(HexBytes(LastToken.Value))
          /\ LastToken.Value = <<"4", "8", "6", "9">> =>
                LastStored.Binary = <<72, 105>>
    /\ (ValueToken(TypeBinary) /\ ~WellFormedHex(LastToken.Value)) =>
          /\ Failed /\ ret.nil
          /\ \E e \in Chain(ret.err) : e.msg = "decode hex data"
          /\ \E e \in Chain(ret.err) :
                \/ e = ErrLength
                \/ \E i \in DOMAIN LastToken.Value :
                      /\ ~IsHex(LastToken.Value[i])
                      /\ e = InvalidByteError(LastToken.Value[i])

\* Parse has failed on the binary "<484G>", whose first byte decodes.
C14_Witness ==
    /\ Failed
    /\ ValueToken(TypeBinary) /\ LastToken.Value = <<"4", "8", "4", "G">>
    /\ Top(stack).a = <<>>

\* The largest of a non-empty set of numbers.
Max(S) == CHOOSE x \in S : \A y \in S : y <= x

\* The trace positions of the top-level names, and of the keys of the
\* dictionary that name g closes.
NameAt == {i \in DOMAIN trace : trace[i].at = "name"}

GroupStart(g) == Max({j \in 1..g : trace[j].at = "top"})

KeysOf(g) ==
    {j \in GroupStart(g)..g :
        trace[j].at = "key" /\ trace[j].tok.Type = TypeLiteral}

\* Every top-level dictionary is flat and its values are numerals.
FlatIntegers ==
    \A i \in DOMAIN trace :
        trace[i].at = "value" => trace[i].tok.Type = TypeNumber

\* The last occurrence of the name at g, and of the key at j under name g.
LastName(g) ==
    Max({h \in NameAt : trace[h].tok.Value = trace[g].tok.Value})

LastKey(g, j) ==
    Max({k \in KeysOf(g) : trace[k].tok.Value = trace[j].tok.Value})

\* C15: last write wins.  On success the result has one entry for each
\* trailing identifier, the dictionary before the last occurrence of the
\* identifier; and that dictionary has one entry for each of its keys, the
\* value that follows the last occurrence of the key in it.
C15_LastWriteWins ==
    (Succeeded /\ FlatIntegers) =>
        /\ DOMAIN ret.params = {trace[g].tok.Value : g \in NameAt}
        /\ \A g \in NameAt :
              LET d == ret.params[trace[g].tok.Value]
                  l == LastName(g)
              IN  /\ DOMAIN d = {trace[j].tok.Value : j \in KeysOf(l)}
                  /\ \A j \in KeysOf(l) :
                        d[trace[j].tok.Value] =
                            IntegerValue(SignedDecimal(
                                trace[LastKey(l, j) + 1].tok.Value))

\* Parse has accepted two dictionaries of one name, the last with /A twice,
\* first 1 and then 2.
C15_Witness ==
    /\ Succeeded /\ FlatIntegers
    /\ Cardinality(NameAt) = 2 /\ DOMAIN ret.params = {<<"a">>}
    /\ \E j, k \in KeysOf(Max(NameAt)) :
          /\ j < k
          /\ trace[j].tok.Value = trace[k].tok.Value
          /\ trace[j + 1].tok.Value = <<"1">>
          /\ trace[k + 1].tok.Value = <<"2">>
    /\ ret.params[<<"a">>][<<"/", "A">>] = IntegerValue(2)

\* The scanner as a bare loop over the whole input leaves it.
RECURSIVE ScanEnd(_)
ScanEnd(s) ==
    LET r == Scan(s)
    IN  IF r.ok THEN ScanEnd(r.s) ELSE r.s

TokensOf(tr) == [i \in DOMAIN tr |-> tr[i].tok]

C18_AtLeastOneDictionary ==
    /\ (Parsed /\ AllWs(buffer)) => Failed
    /\ Succeeded => DOMAIN ret.params # {}

\* The bytes of txt before its first white space.
RECURSIVE UntilWs(_)
UntilWs(txt) ==
    IF txt # <<>> /\ Head(txt) \notin ws
    THEN <<Head(txt)>> \o UntilWs(Tail(txt))
    ELSE <<>>

\* The word that txt starts with after white space.
WordAt(txt) == UntilWs(TrimLeft(txt))

\* A word of lowercase letters that begins with "true" or "false" and goes on.
LongWord(w) ==
    /\ \A i \in DOMAIN w : w[i] \in Lower
    /\ \/ HasPrefix(w, tTrue) /\ Len(w) > Len(tTrue)
       \/ HasPrefix(w, tFalse) /\ Len(w) > Len(tFalse)

\* The word at which token i of the trace was scanned.
WordOf(i) == WordAt(Slice(buffer, StartOf(i), Len(buffer)))

\* C19: word boundaries of booleans and identifiers.  A Boolean token is given
\* only for a complete word: no lowercase letter follows it.  Where a word of
\* lowercase letters that begins with "true" or "false" and goes on stands,
\* Scan gives one Identifier token, the whole word; and Parse does not fail
\* on such a word where the name of a dictionary is due.
C19_WordBoundaries ==
    /\ \A i \in DOMAIN trace :
          /\ trace[i].tok.Type = TypeBoolean =>
                \/ trace[i].end = Len(buffer)
                \/ buffer[trace[i].end + 1] \notin Lower
          /\ LongWord(WordOf(i)) =>
                trace[i].tok = Token(TypeIdentifier, WordOf(i))
    /\ (client = "parse" /\ trace # <<>>
        /\ trace[Len(trace)].at = "name" /\ LongWord(WordOf(Len(trace)))) =>
          ~Failed

\* The cursor is within the buffer, and every token in the trace was scanned
\* forward from where the one before ended, within the buffer.
CursorSafe ==
    /\ 0 <= offset /\ offset <= Len(buffer)
    /\ Len(trace) <= offset
    /\ \A i \in DOMAIN trace :
          /\ StartOf(i) < trace[i].end
          /\ trace[i].end <= Len(buffer)
          /\ trace[i].tok.Type \notin {TypeString, TypeBinary} =>
                Len(trace[i].tok.Value) >= 1

\* C20: cursor safety and progress.  The offset is within 0..len(buffer) in
\* the first state and after every step, and no step decreases it; every call
\* of Scan that returns true has moved it forward by at least one byte, so
\* there are never more tokens than bytes; and every run comes to its end:
\* Parse returns, the bare loop sees Scan return false.
C20_CursorProgress ==
    /\ CursorSafe
    /\ [][/\ CursorSafe'
          /\ offset' >= offset
          /\ Len(trace') > Len(trace) => offset' > offset]_vars
    /\ <>(pc \in {"done", "end"})

\* A run has ended with the cursor at the end of a buffer of several tokens.
C20_Witness ==
    /\ pc \in {"done", "end"}
    /\ offset = Len(buffer) /\ Len(trace) >= 4
    /\ Len(trace) < Len(buffer)

=============================================================================
